---- MODULE Spec2Model ----
(***************************************************************************)
(* A model of .github/scripts/replace_config.py: the encoding detector,    *)
(* the backup manager, the replacer and the orchestrator (main).           *)
(*                                                                         *)
(* Text is a sequence of Unicode code points, file data a sequence of      *)
(* bytes (0..255).  The three placeholder literals and the environment     *)
(* values are abbreviated to short strings over the same characters as     *)
(* the originals (a double quote, ASCII letters); file data is drawn from  *)
(* the byte alphabet  " CR LF r K u h  C3 A9 E9 D6 D0 EF BB BF.            *)
(***************************************************************************)
EXTENDS Integers, Sequences, FiniteSets, TLC

(***************************************************************************)
(* Characters and bytes                                                    *)
(***************************************************************************)
QUOTE == 34
CR == 13
LF == 10
REPLACEMENT_CHAR == 65533

\* The value of a one-element set.  {e(x) : x \in {v}} is how a definition
\* below names a value it uses more than once, as a local variable does.
Value(S) == CHOOSE v \in S : TRUE

\* str.__contains__, str.replace, str.count -- and the same on bytes.
StartsWithAt(s, t, i) ==
    /\ i >= 1
    /\ i + Len(t) - 1 <= Len(s)
    /\ SubSeq(s, i, i + Len(t) - 1) = t

Contains(s, t) == \E i \in 1..(Len(s) + 1) : StartsWithAt(s, t, i)

RECURSIVE ReplaceFrom(_, _, _, _)
ReplaceFrom(s, old, new, i) ==
    IF i > Len(s) THEN <<>>
    ELSE IF Len(old) > 0 /\ StartsWithAt(s, old, i)
         THEN new \o ReplaceFrom(s, old, new, i + Len(old))
         ELSE <<s[i]>> \o ReplaceFrom(s, old, new, i + 1)

\* A faulty variant of StrReplace: after a match the scan goes on one character
\* further, not past the match.
RECURSIVE ReplaceFromStepsOne(_, _, _, _)
ReplaceFromStepsOne(s, old, new, i) ==
    IF i > Len(s) THEN <<>>
    ELSE IF Len(old) > 0 /\ StartsWithAt(s, old, i)
         THEN new \o ReplaceFromStepsOne(s, old, new, i + 1)
         ELSE <<s[i]>> \o ReplaceFromStepsOne(s, old, new, i + 1)

StrReplaceStepsOne(s, old, new) == ReplaceFromStepsOne(s, old, new, 1)

StrReplace(s, old, new) == ReplaceFrom(s, old, new, 1)

RECURSIVE CountFrom(_, _, _)
CountFrom(s, t, i) ==
    IF i > Len(s) \/ Len(t) = 0 THEN 0
    ELSE IF StartsWithAt(s, t, i) THEN 1 + CountFrom(s, t, i + Len(t))
         ELSE CountFrom(s, t, i + 1)

StrCount(s, t) == CountFrom(s, t, 1)

(***************************************************************************)
(* Codecs.  A decode yields [ok, text]; ok = FALSE is UnicodeDecodeError.  *)
(***************************************************************************)
DecodeError == [ok |-> FALSE, text |-> <<>>]

Decoded(t) == [ok |-> TRUE, text |-> t]

IsCont(b) == b \in 128..191

\* The length of the UTF-8 sequence a lead byte opens (0: not a lead byte).
Utf8SeqLen(c) ==
    IF c < 128 THEN 1
    ELSE IF c \in 194..223 THEN 2
    ELSE IF c \in 224..239 THEN 3
    ELSE IF c \in 240..244 THEN 4
    ELSE 0

\* The second byte's range excludes overlong forms, surrogates and > U+10FFFF.
Utf8SecondOk(c, d) ==
    IF c = 224 THEN d \in 160..191
    ELSE IF c = 237 THEN d \in 128..159
    ELSE IF c = 240 THEN d \in 144..191
    ELSE IF c = 244 THEN d \in 128..143
    ELSE IsCont(d)

\* Decode b from byte i on, after the text acc of the bytes before it.
RECURSIVE Utf8DecodeFrom(_, _, _)
Utf8DecodeFrom(b, i, acc) ==
    IF i > Len(b) THEN Decoded(acc)
    ELSE IF Utf8SeqLen(b[i]) = 0 \/ i + Utf8SeqLen(b[i]) - 1 > Len(b)
         THEN DecodeError
    ELSE IF Utf8SeqLen(b[i]) = 1
         THEN Utf8DecodeFrom(b, i + 1, Append(acc, b[i]))
    ELSE IF ~Utf8SecondOk(b[i], b[i + 1]) THEN DecodeError
    ELSE IF \E k \in 2..(Utf8SeqLen(b[i]) - 1) : ~IsCont(b[i + k])
         THEN DecodeError
    ELSE IF Utf8SeqLen(b[i]) = 2
         THEN Utf8DecodeFrom(b, i + 2,
                  Append(acc, (b[i] - 192) * 64 + (b[i + 1] - 128)))
    ELSE IF Utf8SeqLen(b[i]) = 3
         THEN Utf8DecodeFrom(b, i + 3,
                  Append(acc, (b[i] - 224) * 4096 + (b[i + 1] - 128) * 64
                                  + (b[i + 2] - 128)))
    ELSE Utf8DecodeFrom(b, i + 4,
             Append(acc, (b[i] - 240) * 262144 + (b[i + 1] - 128) * 4096
                             + (b[i + 2] - 128) * 64 + (b[i + 3] - 128)))

Utf8Decode(b) == Utf8DecodeFrom(b, 1, <<>>)

BOM == <<239, 187, 191>>

\* utf-8-sig: UTF-8 with one leading byte-order mark dropped.
Utf8SigDecode(b) ==
    IF StartsWithAt(b, BOM, 1)
    THEN Utf8DecodeFrom(b, 4, <<>>)
    ELSE Utf8Decode(b)

\* CPython's gbk codec on the byte pairs of the model's byte alphabet:
\* <<lead, trail>> :> code point.  Every other pair over the alphabet is
\* undecodable.
GbkTable ==
    <<169, 75>> :> 13199 @@ <<169, 104>> :> 65097 @@ <<169, 114>> :> 65108 @@ <<169, 117>> :> 65111
 @@ <<169, 169>> :> 9477 @@ <<169, 187>> :> 9495 @@ <<169, 191>> :> 9499 @@ <<169, 195>> :> 9503
 @@ <<169, 208>> :> 9516 @@ <<169, 214>> :> 9522 @@ <<169, 233>> :> 9541 @@ <<169, 239>> :> 9547
 @@ <<187, 75>> :> 31823 @@ <<187, 104>> :> 31852 @@ <<187, 114>> :> 31864 @@ <<187, 117>> :> 31870
 @@ <<187, 169>> :> 21719 @@ <<187, 187>> :> 25442 @@ <<187, 191>> :> 35938 @@ <<187, 195>> :> 24187
 @@ <<187, 208>> :> 24653 @@ <<187, 214>> :> 24674 @@ <<187, 233>> :> 23130 @@ <<187, 239>> :> 20249
 @@ <<191, 75>> :> 32262 @@ <<191, 104>> :> 32291 @@ <<191, 114>> :> 32301 @@ <<191, 117>> :> 32304
 @@ <<191, 169>> :> 21679 @@ <<191, 187>> :> 28821 @@ <<191, 191>> :> 38752 @@ <<191, 195>> :> 26869
 @@ <<191, 208>> :> 21827 @@ <<191, 214>> :> 24656 @@ <<191, 233>> :> 22359 @@ <<191, 239>> :> 21281
 @@ <<195, 75>> :> 32914 @@ <<195, 104>> :> 32980 @@ <<195, 114>> :> 33015 @@ <<195, 117>> :> 33022
 @@ <<195, 169>> :> 33541 @@ <<195, 187>> :> 27809 @@ <<195, 191>> :> 27599 @@ <<195, 195>> :> 22969
 @@ <<195, 208>> :> 30511 @@ <<195, 214>> :> 24357 @@ <<195, 233>> :> 30596 @@ <<195, 239>> :> 34065
 @@ <<208, 75>> :> 34863 @@ <<208, 104>> :> 34901 @@ <<208, 114>> :> 34918 @@ <<208, 117>> :> 34925
 @@ <<208, 169>> :> 20123 @@ <<208, 187>> :> 35874 @@ <<208, 191>> :> 38156 @@ <<208, 195>> :> 24571
 @@ <<208, 208>> :> 34892 @@ <<208, 214>> :> 20804 @@ <<208, 233>> :> 34394 @@ <<208, 239>> :> 37207
 @@ <<214, 75>> :> 35567 @@ <<214, 104>> :> 35597 @@ <<214, 114>> :> 35607 @@ <<214, 117>> :> 35610
 @@ <<214, 169>> :> 34584 @@ <<214, 187>> :> 21482 @@ <<214, 191>> :> 25370 @@ <<214, 195>> :> 32622
 @@ <<214, 208>> :> 20013 @@ <<214, 214>> :> 31181 @@ <<214, 233>> :> 29664 @@ <<214, 239>> :> 35803
 @@ <<233, 75>> :> 38261 @@ <<233, 104>> :> 38292 @@ <<233, 114>> :> 38302 @@ <<233, 117>> :> 38305
 @@ <<233, 169>> :> 26937 @@ <<233, 187>> :> 27035 @@ <<233, 191>> :> 27053 @@ <<233, 195>> :> 27082
 @@ <<233, 208>> :> 27198 @@ <<233, 214>> :> 27257 @@ <<233, 233>> :> 27546 @@ <<233, 239>> :> 36721
 @@ <<239, 75>> :> 39075 @@ <<239, 104>> :> 39108 @@ <<239, 114>> :> 39119 @@ <<239, 117>> :> 39126
 @@ <<239, 169>> :> 38137 @@ <<239, 187>> :> 38168 @@ <<239, 191>> :> 38175 @@ <<239, 195>> :> 38185
 @@ <<239, 208>> :> 38212 @@ <<239, 214>> :> 38223 @@ <<239, 233>> :> 38249 @@ <<239, 239>> :> 38258

RECURSIVE GbkDecodeFrom(_, _, _)
GbkDecodeFrom(b, i, acc) ==
    IF i > Len(b) THEN Decoded(acc)
    ELSE IF b[i] < 128 THEN GbkDecodeFrom(b, i + 1, Append(acc, b[i]))
    ELSE IF i + 1 > Len(b) \/ <<b[i], b[i + 1]>> \notin DOMAIN GbkTable
         THEN DecodeError
    ELSE GbkDecodeFrom(b, i + 2, Append(acc, GbkTable[<<b[i], b[i + 1]>>]))

GbkDecode(b) == GbkDecodeFrom(b, 1, <<>>)

\* gb2312: the pairs of gbk with lead A1..F7 and trail A1..FE.
RECURSIVE Gb2312DecodeFrom(_, _, _)
Gb2312DecodeFrom(b, i, acc) ==
    IF i > Len(b) THEN Decoded(acc)
    ELSE IF b[i] < 128 THEN Gb2312DecodeFrom(b, i + 1, Append(acc, b[i]))
    ELSE IF \/ i + 1 > Len(b)
            \/ b[i] \notin 161..247
            \/ b[i + 1] \notin 161..254
            \/ <<b[i], b[i + 1]>> \notin DOMAIN GbkTable
         THEN DecodeError
    ELSE Gb2312DecodeFrom(b, i + 2,
                          Append(acc, GbkTable[<<b[i], b[i + 1]>>]))

Gb2312Decode(b) == Gb2312DecodeFrom(b, 1, <<>>)

\* latin-1 maps every byte to the code point of the same number.
Latin1Decode(b) == Decoded(b)

\* cp1252 differs from latin-1 on 80..9F, where five bytes are undefined.
Cp1252Table ==
    128 :> 8364 @@ 130 :> 8218 @@ 131 :> 402 @@ 132 :> 8222
 @@ 133 :> 8230 @@ 134 :> 8224 @@ 135 :> 8225 @@ 136 :> 710
 @@ 137 :> 8240 @@ 138 :> 352 @@ 139 :> 8249 @@ 140 :> 338
 @@ 142 :> 381 @@ 145 :> 8216 @@ 146 :> 8217 @@ 147 :> 8220
 @@ 148 :> 8221 @@ 149 :> 8226 @@ 150 :> 8211 @@ 151 :> 8212
 @@ 152 :> 732 @@ 153 :> 8482 @@ 154 :> 353 @@ 155 :> 8250
 @@ 156 :> 339 @@ 158 :> 382 @@ 159 :> 376

RECURSIVE Cp1252DecodeFrom(_, _, _)
Cp1252DecodeFrom(b, i, acc) ==
    IF i > Len(b) THEN Decoded(acc)
    ELSE IF b[i] \in 128..159
         THEN IF b[i] \in DOMAIN Cp1252Table
              THEN Cp1252DecodeFrom(b, i + 1, Append(acc, Cp1252Table[b[i]]))
              ELSE DecodeError
    ELSE Cp1252DecodeFrom(b, i + 1, Append(acc, b[i]))

Cp1252Decode(b) == Cp1252DecodeFrom(b, 1, <<>>)

AsciiDecode(b) ==
    IF \A i \in 1..Len(b) : b[i] < 128 THEN Decoded(b) ELSE DecodeError

Decode(b, encoding) ==
    CASE encoding = "utf-8" -> Utf8Decode(b)
      [] encoding = "utf-8-sig" -> Utf8SigDecode(b)
      [] encoding = "gbk" -> GbkDecode(b)
      [] encoding = "gb2312" -> Gb2312Decode(b)
      [] encoding = "latin-1" -> Latin1Decode(b)
      [] encoding = "cp1252" -> Cp1252Decode(b)
      [] encoding = "ascii" -> AsciiDecode(b)

\* str.encode('utf-8'): a lone surrogate is a UnicodeEncodeError.
Utf8Encodable(t) == \A i \in 1..Len(t) : t[i] \notin 55296..57343

Utf8EncodeChar(cp) ==
    IF cp < 128 THEN <<cp>>
    ELSE IF cp < 2048 THEN <<192 + (cp \div 64), 128 + (cp % 64)>>
    ELSE IF cp < 65536
         THEN <<224 + (cp \div 4096), 128 + ((cp \div 64) % 64), 128 + (cp % 64)>>
    ELSE <<240 + (cp \div 262144), 128 + ((cp \div 4096) % 64),
           128 + ((cp \div 64) % 64), 128 + (cp % 64)>>

RECURSIVE Utf8Encode(_)
Utf8Encode(t) ==
    IF t = <<>> THEN <<>> ELSE Utf8EncodeChar(Head(t)) \o Utf8Encode(Tail(t))

\* Universal newlines of a text-mode read: CR LF and a lone CR become LF.
RECURSIVE UniversalNewlines(_)
UniversalNewlines(t) ==
    IF t = <<>> THEN <<>>
    ELSE IF Head(t) = CR
         THEN IF Len(t) >= 2 /\ t[2] = LF
              THEN <<LF>> \o UniversalNewlines(Tail(Tail(t)))
              ELSE <<LF>> \o UniversalNewlines(Tail(t))
    ELSE <<Head(t)>> \o UniversalNewlines(Tail(t))

\* A text-mode write turns LF into os.linesep (CR LF on Windows).
RECURSIVE WriteNewlines(_, _)
WriteNewlines(t, windows) ==
    IF t = <<>> THEN <<>>
    ELSE IF Head(t) = LF /\ windows
         THEN <<CR, LF>> \o WriteNewlines(Tail(t), windows)
    ELSE <<Head(t)>> \o WriteNewlines(Tail(t), windows)

\* open(path, 'r', encoding=e, errors='replace').read(): an undecodable
\* input does not raise; the model substitutes U+FFFD for each of its bytes.
ReadText(b, encoding) ==
    Value({UniversalNewlines(IF d.ok THEN d.text
                             ELSE [i \in 1..Len(b) |-> REPLACEMENT_CHAR]) :
           d \in {Decode(b, encoding)}})

\* open(path, 'w', encoding='utf-8').write(t), as the bytes on disk.
WriteText(t, windows) == Utf8Encode(WriteNewlines(t, windows))

(***************************************************************************)
(* detect_file_encoding                                                    *)
(***************************************************************************)
encodings ==
    <<"utf-8", "utf-8-sig", "gbk", "gb2312", "latin-1", "cp1252", "ascii">>

\* Lines 54-70: no candidate decoded the file; inspect its raw bytes.
BinaryDetect(b) ==
    IF Utf8Decode(b).ok THEN <<"utf-8", "low">>
    ELSE IF StartsWithAt(b, BOM, 1) THEN <<"utf-8-sig", "medium">>
    ELSE <<"latin-1", "lowest">>

\* Lines 35-52, from candidate i on: the first candidate that decodes the
\* whole file wins, "high" when the text re-encodes as UTF-8, else "medium".
RECURSIVE DetectFrom(_, _)
DetectFrom(b, i) ==
    IF i > Len(encodings) THEN BinaryDetect(b)
    ELSE IF ~Decode(b, encodings[i]).ok THEN DetectFrom(b, i + 1)
    ELSE IF Utf8Encodable(Decode(b, encodings[i]).text)
         THEN <<encodings[i], "high">>
    ELSE <<encodings[i], "medium">>

detect_file_encoding(b) == DetectFrom(b, 1)

(***************************************************************************)
(* The file system, the clock and the process                              *)
(***************************************************************************)
CONFIG_RS == "libs/hbb_common/src/config.rs"
COMMON_RS == "src/common.rs"
Paths == {CONFIG_RS, COMMON_RS}

\* The placeholder literals of lines 243, 252 and 261, abbreviated: a quoted
\* one-letter name stands for the quoted host, key and URL.
Quoted(v) == <<QUOTE>> \o v \o <<QUOTE>>
RELAY_SEARCH == Quoted(<<114>>)
KEY_SEARCH == Quoted(<<75>>)
API_SEARCH == Quoted(<<117>>)

VARIABLES
    files,          \* path -> [exists, data, mtime]
    backups,        \* <<path, timestamp>> -> [data, mtime]: the backup files
    now,            \* the clock, in seconds
    windows,        \* os.linesep is CR LF
    env,            \* the three environment values, as set
    pc,             \* where the process is
    operations,     \* main's list of operations
    idx,            \* the next operation of the loop of line 268
    success_count,
    exit_code,
    executed,       \* the names of the operations run so far
    last,           \* the last safe_replace_in_file call and what it did
    prev,           \* the call before it
    pruned,         \* the last cleanup_old_backups call
    taken,          \* backup name -> the data its first copy held
    initial,        \* the files and backups the run started with
    det             \* detect_file_encoding's input and result

vars == <<files, backups, now, windows, env, pc, operations, idx,
          success_count, exit_code, executed, last, prev, pruned, taken,
          initial, det>>

NoFile == [exists |-> FALSE, data |-> <<>>, mtime |-> 0]
File(d, m) == [exists |-> TRUE, data |-> d, mtime |-> m]

\* Bounds of the model.
MaxTicks == 1
MaxCalls == 2
MaxTextLen == 3

\* datetime.now().strftime("%Y%m%d_%H%M%S"): the clock, which the model
\* counts in seconds.  A file's modification time is read off the same clock.
Timestamp(t) == t

(***************************************************************************)
(* backup_file                                                             *)
(***************************************************************************)
\* The name of line 78.
BackupPath(filepath, t) == <<filepath, Timestamp(t)>>

\* shutil.copy2 writes the target's data and its modification time to the
\* backup path, whether or not a file of that name exists.
CopyToBackup(bks, name, f) ==
    [n \in DOMAIN bks \cup {name} |->
        IF n = name THEN [data |-> f.data, mtime |-> f.mtime] ELSE bks[n]]

\* [made, name, backups]: made = FALSE is the None of lines 75 and 86.
backup_file(fs, bks, t, filepath, copy_fails) ==
    IF ~fs[filepath].exists \/ copy_fails
    THEN [made |-> FALSE, name |-> BackupPath(filepath, t), backups |-> bks]
    ELSE [made |-> TRUE, name |-> BackupPath(filepath, t),
          backups |-> CopyToBackup(bks, BackupPath(filepath, t), fs[filepath])]

(***************************************************************************)
(* safe_replace_in_file                                                    *)
(*                                                                         *)
(* A call's faults are the I/O errors of its environment:                  *)
(*   backup   shutil.copy2 to the backup path raises                       *)
(*   write    "open": opening the target for writing raises;               *)
(*            "cut": the target is truncated, then the write raises        *)
(*   restore  shutil.copy2 from the backup raises                          *)
(***************************************************************************)
Faults == [backup : BOOLEAN, write : {"ok", "open", "cut"}, restore : BOOLEAN]

NoFault == [backup |-> FALSE, write |-> "ok", restore |-> FALSE]

\* What a call did: its return value, the branch that returned, the target
\* afterwards, and what became of the backup.
Outcome(ret, branch, file, b, raised, restored, encoding) ==
    [ret |-> ret, branch |-> branch, file |-> file, backups |-> b.backups,
     made |-> b.made, name |-> b.name, raised |-> raised,
     restored |-> restored, encoding |-> encoding]

\* The same, for a call that raised with the target as `cur`.
Raised(cur, file, b, restored, encoding) ==
    [Outcome(FALSE, "exception", file, b, TRUE, restored, encoding)
        EXCEPT !.branch = IF cur.exists /\ cur.data = <<>>
                          THEN "exception after truncation"
                          ELSE "exception"]

\* A faulty variant of Rollback: the restore is logged and not made.
RollbackSkipped(cur, b, fault, encoding) ==
    Raised(cur, cur, b, IF b.made THEN "ok" ELSE "none", encoding)

\* Lines 159-179: both handlers copy the backup, if one was made, over the
\* target and return False.  A failed copy is logged and nothing more.
Rollback(cur, b, fault, encoding) ==
    IF b.made /\ ~fault.restore
    THEN Raised(cur, File(b.backups[b.name].data, b.backups[b.name].mtime),
                b, "ok", encoding)
    ELSE Raised(cur, cur, b, IF b.made THEN "failed" ELSE "none", encoding)

\* A faulty variant of BinaryFallback: the test of line 120 is skipped.
BinaryFallbackUnchecked(f, t, search_text, replace_text, b, fault, encoding) ==
    Outcome(TRUE, "binary",
            File(StrReplace(f.data, Utf8Encode(search_text),
                            Utf8Encode(replace_text)), t),
            b, FALSE, "none", encoding)

\* Lines 116-132: the search text is not in the decoded text.
BinaryFallback(f, t, search_text, replace_text, b, fault, encoding) ==
    IF ~Utf8Encodable(search_text) THEN Rollback(f, b, fault, encoding)
    ELSE IF ~Contains(f.data, Utf8Encode(search_text))
         THEN Outcome(FALSE, "absent", f, b, FALSE, "none", encoding)
    ELSE IF ~Utf8Encodable(replace_text) \/ fault.write = "open"
         THEN Rollback(f, b, fault, encoding)
    ELSE IF fault.write = "cut"
         THEN Rollback(File(<<>>, t), b, fault, encoding)
    ELSE Outcome(TRUE, "binary",
                 File(StrReplace(f.data, Utf8Encode(search_text),
                                 Utf8Encode(replace_text)), t),
                 b, FALSE, "none", encoding)

\* Lines 150-157: the target read back as UTF-8 holds the replacement text.
Verified(data, replace_text) ==
    Contains(UniversalNewlines(Utf8Decode(data).text), replace_text)

\* Lines 146-157: write the new text as UTF-8, read it back and verify.  A
\* read-back that does not decode is the UnicodeDecodeError of line 159.
WriteAndVerify(f, t, win, new_content, replace_text, b, fault, encoding) ==
    IF fault.write = "open" THEN Rollback(f, b, fault, encoding)
    ELSE IF fault.write = "cut" \/ ~Utf8Encodable(new_content)
         THEN Rollback(File(<<>>, t), b, fault, encoding)
    ELSE Value({IF Utf8Decode(written.data).ok
                   /\ Verified(written.data, replace_text)
                THEN Outcome(TRUE, "text", written, b, FALSE, "none",
                             encoding)
                ELSE Rollback(written, b, fault, encoding) :
                written \in {File(WriteText(new_content, win), t)}})

\* A faulty variant of Unchanged: the check of line 138 is skipped.
UnchangedSkipped(new_content, original_content) == FALSE

\* Line 138: the substitution changed nothing.
Unchanged(new_content, original_content) == new_content = original_content

\* Lines 134-157: the search text is in the decoded text.
ReplaceText(f, t, win, content, new_content, replace_text, b, fault, encoding) ==
    IF Unchanged(new_content, content)
    THEN Outcome(FALSE, "nochange", f, b, FALSE, "none", encoding)
    ELSE WriteAndVerify(f, t, win, new_content, replace_text, b, fault,
                        encoding)

\* Lines 112-157, on the text read at line 110.
ReplaceContent(f, t, win, content, search_text, replace_text, b, fault, encoding) ==
    IF ~Contains(content, search_text)
    THEN BinaryFallback(f, t, search_text, replace_text, b, fault, encoding)
    ELSE Value({ReplaceText(f, t, win, content, new_content, replace_text,
                            b, fault, encoding) :
                new_content \in {StrReplace(content, search_text,
                                            replace_text)}})

\* Lines 107-157, after the detection and the backup.
ReplaceBody(f, t, win, search_text, replace_text, b, fault, encoding) ==
    Value({ReplaceContent(f, t, win, content, search_text, replace_text, b,
                          fault, encoding) :
           content \in {ReadText(f.data, encoding)}})

NotBackedUp(bks, filepath, t) ==
    [made |-> FALSE, name |-> BackupPath(filepath, t), backups |-> bks]

safe_replace_in_file(fs, bks, t, win, filepath, search_text, replace_text, fault) ==
    IF ~fs[filepath].exists
    THEN Outcome(FALSE, "missing", fs[filepath], NotBackedUp(bks, filepath, t),
                 FALSE, "none", "")
    ELSE IF search_text = <<>> \/ replace_text = <<>>
         THEN Outcome(FALSE, "empty", fs[filepath],
                      NotBackedUp(bks, filepath, t), FALSE, "none", "")
    ELSE Value({ReplaceBody(fs[filepath], t, win, search_text, replace_text,
                            b, fault, encoding) :
                b \in {backup_file(fs, bks, t, filepath, fault.backup)},
                encoding \in {detect_file_encoding(fs[filepath].data)[1]}})

(***************************************************************************)
(* cleanup_old_backups                                                     *)
(***************************************************************************)
\* Lines 189-194: the backup files of filepath.
BackupsOf(bks, filepath) == {n \in DOMAIN bks : n[1] = filepath}

\* A faulty variant of DeleteCount: the loop stops one backup short.
DeleteCountOffByOne(n, keep_count) ==
    IF n > keep_count + 1 THEN n - keep_count - 1 ELSE 0

\* Line 200: how many of n backups the loop tries to delete.
DeleteCount(n, keep_count) == IF n > keep_count THEN n - keep_count ELSE 0

\* Lines 197-200: the first DeleteCount entries of the list sorted by
\* modification time.  The sort is stable and os.listdir's order is
\* arbitrary, so any choice among equal times can be the one made.
IsDeletion(bks, filepath, keep_count, D) ==
    /\ D \subseteq BackupsOf(bks, filepath)
    /\ Cardinality(D) =
           DeleteCount(Cardinality(BackupsOf(bks, filepath)), keep_count)
    /\ \A d \in D : \A r \in BackupsOf(bks, filepath) \ D :
           bks[d].mtime <= bks[r].mtime

Remove(bks, D) == [n \in DOMAIN bks \ D |-> bks[n]]

\* cleanup_old_backups, deleting D, where os.remove raises for F.
cleanup_old_backups(fs, bks, filepath, D, F) ==
    IF ~fs[filepath].exists THEN bks ELSE Remove(bks, D \ F)

(***************************************************************************)
(* main                                                                    *)
(***************************************************************************)
Whitespace == {9, 10, 11, 12, 13, 32}

\* str.strip()
RECURSIVE LStrip(_)
LStrip(v) ==
    IF v # <<>> /\ Head(v) \in Whitespace THEN LStrip(Tail(v)) ELSE v

RECURSIVE RStrip(_)
RStrip(v) ==
    IF v # <<>> /\ v[Len(v)] \in Whitespace
    THEN RStrip(SubSeq(v, 1, Len(v) - 1))
    ELSE v

Strip(v) == RStrip(LStrip(v))

\* Lines 213-215.
RELAY_SERVER(e) == Strip(e.RELAY_SERVER)
RS_PUB_KEY(e) == Strip(e.RS_PUB_KEY)
CUSTOM_API_URL(e) == Strip(e.CUSTOM_API_URL)

\* Line 231.
NoCustomConfiguration(e) ==
    RELAY_SERVER(e) = <<>> /\ RS_PUB_KEY(e) = <<>> /\ CUSTOM_API_URL(e) = <<>>

Operation(name, file, search, replace) ==
    [name |-> name, file |-> file, search |-> search, replace |-> replace]

\* A faulty variant of BuildOperations: the key is replaced before the relay server.
BuildOperationsKeyFirst(e) ==
    (IF RS_PUB_KEY(e) # <<>>
     THEN <<Operation("RSA Key", CONFIG_RS, KEY_SEARCH,
                      Quoted(RS_PUB_KEY(e)))>>
     ELSE <<>>)
    \o (IF RELAY_SERVER(e) # <<>>
        THEN <<Operation("Relay Server", CONFIG_RS, RELAY_SEARCH,
                         Quoted(RELAY_SERVER(e)))>>
        ELSE <<>>)
    \o (IF CUSTOM_API_URL(e) # <<>>
        THEN <<Operation("API URL", COMMON_RS, API_SEARCH,
                         Quoted(CUSTOM_API_URL(e)))>>
        ELSE <<>>)

\* Lines 236-263.
BuildOperations(e) ==
    (IF RELAY_SERVER(e) # <<>>
     THEN <<Operation("Relay Server", CONFIG_RS, RELAY_SEARCH,
                      Quoted(RELAY_SERVER(e)))>>
     ELSE <<>>)
    \o (IF RS_PUB_KEY(e) # <<>>
        THEN <<Operation("RSA Key", CONFIG_RS, KEY_SEARCH,
                         Quoted(RS_PUB_KEY(e)))>>
        ELSE <<>>)
    \o (IF CUSTOM_API_URL(e) # <<>>
        THEN <<Operation("API URL", COMMON_RS, API_SEARCH,
                         Quoted(CUSTOM_API_URL(e)))>>
        ELSE <<>>)

\* A faulty variant of ExitCode: one success is not enough.
ExitCodeNeedsTwo(n) == IF n > 1 THEN 0 ELSE 1

\* Line 313.
ExitCode(n) == IF n > 0 THEN 0 ELSE 1

\* A faulty variant of NextOperation: a failed operation ends the loop.
NextOperationBreaks(i, ret) == IF ret THEN i + 1 ELSE i + 3

\* Line 268: the loop goes on to the next operation whatever the last one
\* returned.
NextOperation(i, ret) == i + 1

\* The record of a call, for the properties below.
NoCall ==
    [called |-> FALSE, path |-> "", search |-> <<>>, replace |-> <<>>,
     pre |-> NoFile, ret |-> FALSE, branch |-> "", made |-> FALSE,
     raised |-> FALSE, restored |-> "none", encoding |-> ""]

CallRecord(fs, bks, filepath, search_text, replace_text, r) ==
    [called |-> TRUE, path |-> filepath, search |-> search_text,
     replace |-> replace_text, pre |-> fs[filepath], ret |-> r.ret,
     branch |-> r.branch, made |-> r.made, raised |-> r.raised,
     restored |-> r.restored, encoding |-> r.encoding]

NoPrune == [ran |-> FALSE, path |-> "", before |-> <<>>, failed |-> {}]

\* The data each backup name held when its first copy was made.
Taken(tk, r) ==
    IF r.made /\ r.name \notin DOMAIN tk
    THEN [n \in DOMAIN tk \cup {r.name} |->
             IF n = r.name THEN r.backups[r.name].data ELSE tk[n]]
    ELSE tk

NoDetect == [bytes |-> <<>>, encoding |-> "", result |-> <<>>]

(***************************************************************************)
(* The run of the script                                                   *)
(***************************************************************************)
\* The second the run starts in; earlier backups carry earlier timestamps,
\* and the files were last modified the second before.
StartTime == 2

RelayValues == {<<>>, <<32>>, <<104>>, <<114>>}
KeyValues == {<<>>, <<104, 32>>}
ApiValues == {<<>>, <<104>>}

Envs == [RELAY_SERVER : RelayValues, RS_PUB_KEY : KeyValues,
         CUSTOM_API_URL : ApiValues]

ConfigFiles ==
    {NoFile,
     File(RELAY_SEARCH \o KEY_SEARCH, 1),
     File(KEY_SEARCH \o <<LF>>, 1),
     File(<<233>> \o RELAY_SEARCH \o KEY_SEARCH, 1)}

CommonFiles == {NoFile, File(API_SEARCH, 1)}

OldBackup(ts) == [data |-> <<104>>, mtime |-> ts]

EarlierBackups ==
    {<<>>,
     [n \in {<<CONFIG_RS, 0>>} |-> OldBackup(n[2])],
     [n \in {<<CONFIG_RS, 0>>, <<CONFIG_RS, 1>>} |-> OldBackup(n[2])]}

Init ==
    /\ files \in [Paths -> ConfigFiles \cup CommonFiles]
    /\ files[CONFIG_RS] \in ConfigFiles
    /\ files[COMMON_RS] \in CommonFiles
    /\ backups \in EarlierBackups
    /\ now = StartTime
    /\ windows \in BOOLEAN
    /\ env \in Envs
    /\ pc = "start"
    /\ operations = <<>>
    /\ idx = 1
    /\ success_count = 0
    /\ exit_code = -1
    /\ executed = <<>>
    /\ last = NoCall
    /\ prev = NoCall
    /\ pruned = NoPrune
    /\ taken = <<>>
    /\ initial = [files |-> files, backups |-> backups]
    /\ det = NoDetect

\* Lines 213-265: read the environment; return 0 at once when nothing is
\* set, else build the list of operations.
Start ==
    /\ pc = "start"
    /\ IF NoCustomConfiguration(env)
       THEN /\ pc' = "done"
            /\ exit_code' = 0
            /\ UNCHANGED operations
       ELSE /\ pc' = "loop"
            /\ operations' = BuildOperations(env)
            /\ UNCHANGED exit_code
    /\ UNCHANGED <<files, backups, now, windows, env, idx, success_count,
                   executed, last, prev, pruned, taken, initial, det>>

\* Lines 268-277: one turn of the loop: the replacement and, when it
\* succeeded, the pruning of the file's backups down to two.
ExecuteOperation ==
    /\ pc = "loop"
    /\ idx <= Len(operations)
    /\ UNCHANGED <<now, windows, env, pc, operations, exit_code, prev,
                   initial, det>>
    /\ \E fault \in Faults :
       \E op \in {operations[idx]} :
       \E r \in {safe_replace_in_file(files, backups, now, windows, op.file,
                                      op.search, op.replace, fault)} :
       \E fs \in {[files EXCEPT ![op.file] = r.file]} :
         /\ files' = fs
         /\ last' = CallRecord(files, backups, op.file, op.search,
                               op.replace, r)
         /\ taken' = Taken(taken, r)
         /\ executed' = Append(executed, [name |-> op.name, ret |-> r.ret])
         /\ idx' = NextOperation(idx, r.ret)
         /\ IF r.ret
            THEN /\ success_count' = success_count + 1
                 /\ \E D \in SUBSET BackupsOf(r.backups, op.file) :
                      /\ IsDeletion(r.backups, op.file, 2, D)
                      /\ \E F \in SUBSET D :
                           /\ backups' = cleanup_old_backups(
                                             fs, r.backups, op.file, D, F)
                           /\ pruned' = [ran |-> TRUE, path |-> op.file,
                                         before |-> r.backups,
                                         failed |-> F]
            ELSE /\ success_count' = success_count
                 /\ backups' = r.backups
                 /\ pruned' = NoPrune

\* Lines 279-313: the summary and the exit status.
Summarize ==
    /\ pc = "loop"
    /\ idx > Len(operations)
    /\ pc' = "done"
    /\ exit_code' = ExitCode(success_count)
    /\ UNCHANGED <<files, backups, now, windows, env, operations, idx,
                   success_count, executed, last, prev, pruned, taken,
                   initial, det>>

\* Time passes between two steps of the run.
Tick ==
    /\ pc \in {"loop", "call"}
    /\ now < StartTime + MaxTicks
    /\ now' = now + 1
    /\ UNCHANGED <<files, backups, windows, env, pc, operations, idx,
                   success_count, exit_code, executed, last, prev, pruned,
                   taken, initial, det>>

Next == Start \/ ExecuteOperation \/ Summarize \/ Tick

Spec == Init /\ [][Next]_vars

\* The runs checked for termination: those on a POSIX host that find two
\* earlier backups on disk, so that each successful operation has a backup
\* to prune.
InitPruning ==
    /\ Init
    /\ ~windows
    /\ Cardinality(DOMAIN backups) = 2

\* The script is one thread that runs to its end: a step that can be taken
\* is taken.  The clock may stand still.
FairSpec ==
    InitPruning /\ [][Next]_vars /\ WF_vars(Start \/ ExecuteOperation \/ Summarize)

(***************************************************************************)
(* Properties of the run                                                   *)
(***************************************************************************)
Names(ops) == [i \in 1..Len(ops) |-> ops[i].name]

\* The backups of the pruned path that are on disk after the pruning.
Remaining == BackupsOf(backups, pruned.path)

\* Those that were on disk before it.
Before == BackupsOf(pruned.before, pruned.path)

\* C1 as stated: after a successful replacement and its cleanup with
\* keep_count = 2, exactly 2 backups of the path are on disk, the 2 most
\* recently modified.
C1_ExactlyTwoRemain ==
    pruned.ran =>
        /\ Cardinality(Remaining) = 2
        /\ \A d \in Before \ Remaining : \A r \in Remaining :
               pruned.before[d].mtime <= pruned.before[r].mtime

\* C1, amended: after a successful replacement and its cleanup with
\* keep_count = 2 in which no deletion failed, the backups of the path on
\* disk are 2, or all of them when fewer than 2 existed, each as it was
\* before the cleanup, and none of them was modified before a deleted one.
C1_AtMostTwoNewestRemain ==
    (pruned.ran /\ pruned.failed = {}) =>
        /\ Remaining \subseteq Before
        /\ Cardinality(Remaining) =
               IF Cardinality(Before) < 2 THEN Cardinality(Before) ELSE 2
        /\ \A r \in Remaining : backups[r] = pruned.before[r]
        /\ \A d \in Before \ Remaining : \A r \in Remaining :
               pruned.before[d].mtime <= pruned.before[r].mtime

\* A cleanup that deleted the oldest of three backups and kept two.
C1_Witness ==
    /\ pruned.ran
    /\ pruned.failed = {}
    /\ Cardinality(Before) = 3
    /\ Cardinality(Remaining) = 2
    /\ <<CONFIG_RS, 0>> \in Before \ Remaining

\* The operations run so far are the first ones of the list, in its order,
\* one run each, and at the end every operation has run and the run has an
\* exit code.
RunInListOrder ==
    /\ pc \in {"loop", "done"} =>
           /\ Len(executed) = idx - 1
           /\ Len(executed) <= Len(operations)
           /\ \A i \in 1..Len(executed) : executed[i].name = operations[i].name
    /\ pc = "done" =>
           /\ Len(executed) = Len(operations)
           /\ exit_code \in {0, 1}

\* C3: no failure of an operation aborts the run: whatever the operations
\* and whichever of them fail, each is run once, in the order of the list,
\* and the run reaches its summary and returns an exit code.
C3_NeverAborts == []RunInListOrder /\ <>(pc = "done")

\* A run of three operations whose first two failed and whose third ran
\* and succeeded.
C3_Witness ==
    /\ pc = "done"
    /\ Len(executed) = 3
    /\ ~executed[1].ret
    /\ ~executed[2].ret
    /\ executed[3].ret
    /\ Names(executed) = <<"Relay Server", "RSA Key", "API URL">>

\* C5: the exit status is 0 when an operation succeeded or none was
\* requested, and 1 when operations were requested and all of them failed.
C5_ExitStatus ==
    pc = "done" =>
        IF operations = <<>> \/ \E i \in 1..Len(executed) : executed[i].ret
        THEN exit_code = 0
        ELSE exit_code = 1

\* A finished run of one success among failures, hence status 0.
C5_Witness ==
    /\ pc = "done"
    /\ Len(executed) = 2
    /\ ~executed[1].ret
    /\ executed[2].ret
    /\ exit_code = 0

\* The names of the operations whose value v[i] is not empty, in the order
\* relay server, key, API URL.
Requested(relay, key, api) ==
    (IF relay # <<>> THEN <<"Relay Server">> ELSE <<>>)
    \o (IF key # <<>> THEN <<"RSA Key">> ELSE <<>>)
    \o (IF api # <<>> THEN <<"API URL">> ELSE <<>>)

NothingTouched ==
    /\ executed = <<>>
    /\ exit_code = 0
    /\ files = initial.files
    /\ backups = initial.backups

\* C7 as stated: the list holds the relay-server, key and API-URL
\* operations in that order, each if and only if its environment value is
\* not empty; with all three empty nothing runs, the status is 0 and no
\* file is touched.
C7_ListFollowsEnvironment ==
    /\ pc = "done" =>
           Names(executed) =
               Requested(env.RELAY_SERVER, env.RS_PUB_KEY, env.CUSTOM_API_URL)
    /\ (/\ pc = "done"
        /\ env.RELAY_SERVER = <<>>
        /\ env.RS_PUB_KEY = <<>>
        /\ env.CUSTOM_API_URL = <<>>) => NothingTouched

\* C7, amended: the same with each value taken after its surrounding
\* whitespace is stripped: a value of whitespace alone requests nothing.
\* The operations built are the ones run, each on its file with its
\* placeholder and the quoted value.
C7_ListFollowsStrippedEnvironment ==
    /\ pc \in {"loop", "done"} /\ ~NoCustomConfiguration(env) =>
           /\ Names(operations) =
                  Requested(Strip(env.RELAY_SERVER), Strip(env.RS_PUB_KEY),
                            Strip(env.CUSTOM_API_URL))
           /\ \A i \in 1..Len(operations) :
                  /\ operations[i].name = "Relay Server" =>
                         /\ operations[i].file = CONFIG_RS
                         /\ operations[i].search = RELAY_SEARCH
                         /\ operations[i].replace =
                                Quoted(Strip(env.RELAY_SERVER))
                  /\ operations[i].name = "RSA Key" =>
                         /\ operations[i].file = CONFIG_RS
                         /\ operations[i].search = KEY_SEARCH
                         /\ operations[i].replace =
                                Quoted(Strip(env.RS_PUB_KEY))
                  /\ operations[i].name = "API URL" =>
                         /\ operations[i].file = COMMON_RS
                         /\ operations[i].search = API_SEARCH
                         /\ operations[i].replace =
                                Quoted(Strip(env.CUSTOM_API_URL))
    /\ pc = "done" =>
           Names(executed) =
               Requested(Strip(env.RELAY_SERVER), Strip(env.RS_PUB_KEY),
                         Strip(env.CUSTOM_API_URL))
    /\ (pc = "done" /\ Strip(env.RELAY_SERVER) = <<>>
            /\ Strip(env.RS_PUB_KEY) = <<>>
            /\ Strip(env.CUSTOM_API_URL) = <<>>) => NothingTouched

\* A relay value of whitespace alone beside two set values: the key and the
\* API URL were run, in that order, and nothing else.
C7_Witness ==
    /\ pc = "done"
    /\ env.RELAY_SERVER = <<32>>
    /\ Names(executed) = <<"RSA Key", "API URL">>

\* The search text is in the target as the call read it.
SearchPresent(call) ==
    /\ call.called
    /\ call.pre.exists
    /\ call.search # <<>>
    /\ Contains(ReadText(call.pre.data,
                         detect_file_encoding(call.pre.data)[1]),
                call.search)

\* C9: a replacement whose search text is present and equal to its
\* replacement text returns failure and leaves the target as it was; the
\* run counts it as failed, so a run of that operation alone exits 1.
C9_NoOpFails ==
    (SearchPresent(last) /\ last.search = last.replace) =>
        /\ ~last.ret
        /\ files[last.path] = last.pre
        /\ ~executed[Len(executed)].ret
        /\ (pc = "done" /\ Len(operations) = 1) => exit_code = 1

\* A finished run whose one operation set the relay server to the value
\* the file already had.
C9_Witness ==
    /\ pc = "done"
    /\ Len(operations) = 1
    /\ SearchPresent(last)
    /\ last.search = last.replace
    /\ last.branch = "nochange"
    /\ exit_code = 1

\* C10 as stated: backup_file never writes over an existing backup: every
\* backup on disk still holds the data the target had when the backup of
\* that name was taken, so that what the target held before the run can be
\* had back from a backup until the pruning deletes it.
C10_BackupsNeverOverwritten ==
    \A n \in DOMAIN taken \cap DOMAIN backups : backups[n].data = taken[n]

(***************************************************************************)
(* safe_replace_in_file called on its own: one file, one pair of           *)
(* arguments, called up to MaxCalls times over.                            *)
(***************************************************************************)
SearchTexts == {<<>>, <<104>>, <<233>>, <<104, 117>>}
ReplaceTexts ==
    {<<>>, <<104>>, <<117>>, <<104, 104>>, <<233>>, <<117, CR>>}

TargetFiles ==
    {NoFile,
     File(<<104>>, 1),
     File(<<104, 104, 117>>, 1),
     File(<<195, 169, 104>>, 1),
     File(<<233, QUOTE, 104>>, 1),
     File(<<191, QUOTE, 195, 169>>, 1),
     File(<<104, CR, LF, 117>>, 1)}

InitReplace ==
    /\ files \in [Paths -> TargetFiles]
    /\ files[COMMON_RS] = NoFile
    /\ backups = <<>>
    /\ now = StartTime
    /\ windows \in BOOLEAN
    /\ env = [RELAY_SERVER |-> <<>>, RS_PUB_KEY |-> <<>>,
              CUSTOM_API_URL |-> <<>>]
    /\ pc = "call"
    /\ \E s \in SearchTexts : \E r \in ReplaceTexts :
           operations = <<Operation("call", CONFIG_RS, s, r)>>
    /\ idx = 1
    /\ success_count = 0
    /\ exit_code = -1
    /\ executed = <<>>
    /\ last = NoCall
    /\ prev = NoCall
    /\ pruned = NoPrune
    /\ taken = <<>>
    /\ initial = [files |-> files, backups |-> backups]
    /\ det = NoDetect

\* One call of safe_replace_in_file(file, search, replace).
Call ==
    /\ pc = "call"
    /\ idx <= MaxCalls
    /\ idx' = idx + 1
    /\ UNCHANGED <<now, windows, env, pc, operations, success_count,
                   exit_code, executed, pruned, initial, det>>
    /\ \E fault \in Faults :
       \E op \in {operations[1]} :
       \E r \in {safe_replace_in_file(files, backups, now, windows, op.file,
                                      op.search, op.replace, fault)} :
         /\ files' = [files EXCEPT ![op.file] = r.file]
         /\ backups' = r.backups
         /\ prev' = last
         /\ last' = CallRecord(files, backups, op.file, op.search,
                               op.replace, r)
         /\ taken' = Taken(taken, r)

NextReplace == Call \/ Tick

SpecReplace == InitReplace /\ [][NextReplace]_vars

\* The text of the target as the call read it, and as it is now.
TextBefore(call) ==
    ReadText(call.pre.data, detect_file_encoding(call.pre.data)[1])

TextNow(call) == ReadText(files[call.path].data, "utf-8")

\* The same without the translation of line ends.
RawTextBefore(call) ==
    Decode(call.pre.data, detect_file_encoding(call.pre.data)[1]).text

RawTextNow(call) == Utf8Decode(files[call.path].data).text

\* The places of text t where the text s starts.
Occurrences(t, s) == {i \in 1..Len(t) : StartsWithAt(t, s, i)}

\* Text u is text t with its occurrence of s at place i replaced by r.
ReplacedAt(t, u, s, r, i) ==
    u = SubSeq(t, 1, i - 1) \o r \o SubSeq(t, i + Len(s), Len(t))

\* The call found its search text exactly once in the target and succeeded.
ReplacedOnce(call) ==
    /\ call.called
    /\ call.ret
    /\ call.search # <<>>
    /\ Cardinality(Occurrences(TextBefore(call), call.search)) = 1

\* C2: a call that raised after its backup was made copies the backup over
\* the target and returns False, and when the copy succeeded the target
\* holds what it held before the call.
C2_RollbackRestores ==
    (last.called /\ last.raised /\ last.made) =>
        /\ ~last.ret
        /\ last.restored \in {"ok", "failed"}
        /\ last.restored = "ok" => files[last.path] = last.pre

\* A call whose write failed after it had truncated the target, and whose
\* rollback brought the old data back.
C2_Witness ==
    /\ last.called
    /\ last.made
    /\ last.branch = "exception after truncation"
    /\ last.restored = "ok"
    /\ last.pre.data # <<>>
    /\ files[last.path] = last.pre

\* C4 as stated: after a replacement in a file that held the search text
\* once, the file's text is the old text with that occurrence replaced and
\* nothing else changed, and the same call made again returns failure.
C4_ReplacedOnceThenFails ==
    /\ ReplacedOnce(last) =>
           \A i \in Occurrences(RawTextBefore(last), last.search) :
               ReplacedAt(RawTextBefore(last), RawTextNow(last), last.search,
                          last.replace, i)
    /\ (ReplacedOnce(prev) /\ last.called) => ~last.ret

\* C4, amended: after a replacement in a file that held the search text
\* once, the file is UTF-8 and its text, line ends read as LF, is the old
\* text, decoded in the detected encoding with line ends read as LF, with
\* that occurrence replaced; and the same call made again returns failure
\* unless the search text is in the rewritten file.
C4_ReplacedOnceUpToNewlines ==
    /\ ReplacedOnce(last) =>
           /\ Utf8Decode(files[last.path].data).ok
           /\ \A i \in Occurrences(TextBefore(last), last.search) :
                  ReplacedAt(TextBefore(last), TextNow(last), last.search,
                             last.replace, i)
    /\ (ReplacedOnce(prev) /\ last.called /\ last.ret) =>
           Contains(TextBefore(last), last.search)

\* A latin-1 file rewritten as UTF-8 by a first call, and a second call
\* with the same arguments that did not find the search text.
C4_Witness ==
    /\ ReplacedOnce(prev)
    /\ prev.encoding = "latin-1"
    /\ last.called
    /\ ~last.ret
    /\ last.branch = "absent"

\* C6: when the search text is in the target neither as decoded text nor
\* as UTF-8 bytes, the call returns False and the target stays as it was.
C6_AbsentLeavesFile ==
    (/\ last.called
     /\ ~Contains(TextBefore(last), last.search)
     /\ ~Contains(last.pre.data, Utf8Encode(last.search))) =>
        /\ ~last.ret
        /\ files[last.path] = last.pre

\* A call on a file of several bytes that holds the search text nowhere,
\* made after the backup was taken.
C6_Witness ==
    /\ last.called
    /\ last.branch = "absent"
    /\ last.made
    /\ Len(last.pre.data) > 1
    /\ files[last.path] = last.pre

(***************************************************************************)
(* detect_file_encoding called on its own, on files written in one of the  *)
(* candidate encodings other than UTF-8.                                   *)
(***************************************************************************)
\* str.encode in each of those encodings, on the characters of the model:
\* the inverse of the decoders above.
CanEncodeChar(cp, encoding) ==
    CASE encoding = "utf-8-sig" -> cp \notin 55296..57343
      [] encoding \in {"gbk", "gb2312"} ->
             \/ cp < 128
             \/ \E n \in DOMAIN GbkTable :
                    /\ GbkTable[n] = cp
                    /\ encoding = "gb2312" =>
                           n[1] \in 161..247 /\ n[2] \in 161..254
      [] encoding = "latin-1" -> cp < 256
      [] encoding = "cp1252" ->
             \/ cp < 128
             \/ cp \in 160..255
             \/ \E n \in DOMAIN Cp1252Table : Cp1252Table[n] = cp

EncodeChar(cp, encoding) ==
    CASE encoding = "utf-8-sig" -> Utf8EncodeChar(cp)
      [] encoding \in {"gbk", "gb2312"} ->
             IF cp < 128 THEN <<cp>>
             ELSE CHOOSE n \in DOMAIN GbkTable : GbkTable[n] = cp
      [] encoding = "latin-1" -> <<cp>>
      [] encoding = "cp1252" ->
             IF cp < 128 \/ cp \in 160..255 THEN <<cp>>
             ELSE <<CHOOSE n \in DOMAIN Cp1252Table : Cp1252Table[n] = cp>>

RECURSIVE EncodeChars(_, _)
EncodeChars(t, encoding) ==
    IF t = <<>> THEN <<>>
    ELSE EncodeChar(Head(t), encoding) \o EncodeChars(Tail(t), encoding)

Encode(t, encoding) ==
    IF encoding = "utf-8-sig" THEN BOM \o EncodeChars(t, encoding)
    ELSE EncodeChars(t, encoding)

OtherEncodings == {"utf-8-sig", "gbk", "gb2312", "latin-1", "cp1252"}

\* The characters of the files: " h e-acute and U+4E2D.
FileChars == {QUOTE, 104, 233, 20013}

FileTexts == UNION {[1..n -> FileChars] : n \in 1..MaxTextLen}

InitDetect ==
    /\ det \in [text : FileTexts, encoding : OtherEncodings, result : {<<>>}]
    /\ \A i \in 1..Len(det.text) : CanEncodeChar(det.text[i], det.encoding)
    /\ files = [p \in Paths |->
                   IF p = CONFIG_RS
                   THEN File(Encode(det.text, det.encoding), 1)
                   ELSE NoFile]
    /\ backups = <<>>
    /\ now = StartTime
    /\ windows = FALSE
    /\ env = [RELAY_SERVER |-> <<>>, RS_PUB_KEY |-> <<>>,
              CUSTOM_API_URL |-> <<>>]
    /\ pc = "detect"
    /\ operations = <<>>
    /\ idx = 1
    /\ success_count = 0
    /\ exit_code = -1
    /\ executed = <<>>
    /\ last = NoCall
    /\ prev = NoCall
    /\ pruned = NoPrune
    /\ taken = <<>>
    /\ initial = [files |-> files, backups |-> backups]

\* detect_file_encoding(filepath)
Detect ==
    /\ pc = "detect"
    /\ pc' = "detected"
    /\ det' = [det EXCEPT
                  !.result = detect_file_encoding(files[CONFIG_RS].data)]
    /\ UNCHANGED <<files, backups, now, windows, env, operations, idx,
                   success_count, exit_code, executed, last, prev, pruned,
                   taken, initial>>

NextDetect == Detect

SpecDetect == InitDetect /\ [][NextDetect]_vars

\* C8 as stated: for a file written in a candidate encoding other than
\* UTF-8 (and not plain ASCII, which is UTF-8 as well), the detector
\* returns that encoding.
C8_DetectsTheEncoding ==
    (/\ pc = "detected"
     /\ \E i \in 1..Len(det.text) : det.text[i] >= 128) =>
        det.result[1] = det.encoding

\* What the detector does return: the first candidate of the list that
\* decodes the whole file, with confidence "high".
DetectorReturnsFirstThatDecodes ==
    pc = "detected" =>
        \E i \in 1..Len(encodings) :
            /\ det.result = <<encodings[i], "high">>
            /\ Decode(files[CONFIG_RS].data, encodings[i]).ok
            /\ \A j \in 1..(i - 1) :
                   ~Decode(files[CONFIG_RS].data, encodings[j]).ok

====
